---- MODULE Spec2Model ----
(***************************************************************************)
(* K4IniReader: the INI document builder (the constructor's getline loop)  *)
(* and the typed accessor read<T>.  Text is a sequence of one-character    *)
(* strings; positions are 1-based and npos stands for std::string::npos.   *)
(***************************************************************************)
EXTENDS Integers, Sequences, FiniteSets, TLC

VARIABLES
    exists,          \* whether std::ifstream can open fileName
    file,            \* the content of the file, a sequence of characters
    pos,             \* the stream position: characters consumed by getline
    pc,              \* "start": constructor not run, "loop": inside the
                     \* while loop, "ready": constructed
    data,            \* section -> (key -> value)
    currentSection,  \* the constructor's local currentSection
    lines,           \* the lines std::getline has returned so far
    ret,             \* the last call of read: its arguments and its result,
                     \* a value v of type T written <<T, v>>
    srcLines,        \* the lines the file was written from
    eol              \* the line-ending convention the file was written with

vars == <<exists, file, pos, pc, data, currentSection, lines, ret,
          srcLines, eol>>

----------------------------------------------------------------------------
(* Bounds of the model *)

MaxLines == 3       \* lines in a file
MaxValLen == 3      \* length of the generated raw values
MaxCommentLen == 4  \* length of the generated texts of comment markers
IntBits == 8        \* width of the integer types read<T> is instantiated with

----------------------------------------------------------------------------
(* Characters *)

npos == 0

LF == "\n"
CR == "\r"
TAB == "\t"
FF == "\f"
SP == " "

\* std::isspace in the "C" locale (the vertical tab is not in the alphabet)
isspace(ch) == ch \in {SP, TAB, LF, CR, FF}

UpperChars == <<"A","B","C","D","E","F","G","H","I","J","K","L","M",
                "N","O","P","Q","R","S","T","U","V","W","X","Y","Z">>
LowerChars == <<"a","b","c","d","e","f","g","h","i","j","k","l","m",
                "n","o","p","q","r","s","t","u","v","w","x","y","z">>

isupper(c) == \E i \in 1..Len(UpperChars) : UpperChars[i] = c

tolower(c) ==
    IF isupper(c)
    THEN LowerChars[CHOOSE i \in 1..Len(UpperChars) : UpperChars[i] = c]
    ELSE c

DigitChars == <<"0","1","2","3","4","5","6","7","8","9">>

isdigit(c) == \E i \in 1..Len(DigitChars) : DigitChars[i] = c

DigitVal(c) == (CHOOSE i \in 1..Len(DigitChars) : DigitChars[i] = c) - 1

----------------------------------------------------------------------------
(* std::string operations *)

MinOf(S) == CHOOSE m \in S : \A n \in S : m <= n
MaxOf(S) == CHOOSE m \in S : \A n \in S : m >= n

\* s.find(c, from): the first position >= from holding c, or npos
strFind(s, c, from) ==
    LET I == {i \in from..Len(s) : s[i] = c}
    IN  IF I = {} THEN npos ELSE MinOf(I)

\* s.find_first_of(set): the first position holding a character of the set
find_first_of(s, set) ==
    LET I == {i \in 1..Len(s) : s[i] \in set}
    IN  IF I = {} THEN npos ELSE MinOf(I)

\* s.find("//")
findDoubleSlash(s) ==
    LET I == {i \in 1..(Len(s) - 1) : s[i] = "/" /\ s[i + 1] = "/"}
    IN  IF I = {} THEN npos ELSE MinOf(I)

\* s.erase(p): drops everything from position p on
erase(s, p) == SubSeq(s, 1, p - 1)

\* s.substr(p, n) and s.substr(p)
substr(s, p, n) == SubSeq(s, p, p + n - 1)
substrFrom(s, p) == SubSeq(s, p, Len(s))

trimStart(s) ==
    LET I == {i \in 1..Len(s) : ~isspace(s[i])}
    IN  IF I = {} THEN <<>> ELSE SubSeq(s, MinOf(I), Len(s))

trimEnd(s) ==
    LET I == {i \in 1..Len(s) : ~isspace(s[i])}
    IN  IF I = {} THEN <<>> ELSE SubSeq(s, 1, MaxOf(I))

\* a slip: only blanks and tabs are taken off
trim_BlanksOnly(s) ==
    LET I == {i \in 1..Len(s) : s[i] \notin {SP, TAB}}
    IN  IF I = {} THEN <<>> ELSE SubSeq(s, MinOf(I), MaxOf(I))

trim(s) == trimEnd(trimStart(s))

\* a slip: with both kinds of marker present, the ';' or '#' decides alone
removeInlineComment_SemicolonWins(s) ==
    LET commaOrHashtagPos == find_first_of(s, {";", "#"})
        doubleSlashPos == findDoubleSlash(s)
    IN  IF commaOrHashtagPos # npos
        THEN erase(s, commaOrHashtagPos)
        ELSE IF doubleSlashPos # npos
             THEN erase(s, doubleSlashPos)
             ELSE s

removeInlineComment(s) ==
    LET commaOrHashtagPos == find_first_of(s, {";", "#"})
        doubleSlashPos == findDoubleSlash(s)
    IN  IF commaOrHashtagPos # npos
        THEN IF doubleSlashPos # npos
             THEN erase(s, IF commaOrHashtagPos <= doubleSlashPos
                           THEN commaOrHashtagPos ELSE doubleSlashPos)
             ELSE erase(s, commaOrHashtagPos)
        ELSE IF doubleSlashPos # npos
             THEN erase(s, doubleSlashPos)
             ELSE s

----------------------------------------------------------------------------
(* The map: std::unordered_map of std::unordered_map *)

EmptyMap == <<>>

\* m[k] of an unordered_map inserts a default value for an absent key
Subscript(m, k, dflt) == IF k \in DOMAIN m THEN m ELSE (k :> dflt) @@ m

Put(m, k, v) == (k :> v) @@ m

----------------------------------------------------------------------------
(* The body of the constructor's while loop *)

\* a slip: the extracted section name is not trimmed
HeaderBranch_NoTrim(d, cur, line, posBracketStart) ==
    LET posBracketEnd == strFind(line, "]", posBracketStart)
    IN  IF posBracketEnd = npos
        THEN [data |-> d, currentSection |-> cur]
        ELSE LET sectionExtracted ==
                     substr(line, posBracketStart + 1,
                            posBracketEnd - posBracketStart - 1)
             IN  [data |-> Subscript(d, sectionExtracted, EmptyMap),
                  currentSection |-> sectionExtracted]

\* a slip: a header assigns a fresh map to its section
HeaderBranch_Reset(d, cur, line, posBracketStart) ==
    LET posBracketEnd == strFind(line, "]", posBracketStart)
    IN  IF posBracketEnd = npos
        THEN [data |-> d, currentSection |-> cur]
        ELSE LET sectionExtracted ==
                     trim(substr(line, posBracketStart + 1,
                                 posBracketEnd - posBracketStart - 1))
             IN  [data |-> Put(d, sectionExtracted, EmptyMap),
                  currentSection |-> sectionExtracted]

\* a slip: without a ']' the line is not skipped, and substr runs to the
\* end of the line
HeaderBranch_NoSkip(d, cur, line, posBracketStart) ==
    LET posBracketEnd == strFind(line, "]", posBracketStart)
        sectionExtracted ==
            IF posBracketEnd = npos
            THEN trim(substrFrom(line, posBracketStart + 1))
            ELSE trim(substr(line, posBracketStart + 1,
                             posBracketEnd - posBracketStart - 1))
    IN  [data |-> Subscript(d, sectionExtracted, EmptyMap),
         currentSection |-> sectionExtracted]

\* the branch of a line that holds '['
HeaderBranch(d, cur, line, posBracketStart) ==
    LET posBracketEnd == strFind(line, "]", posBracketStart)
    IN  IF posBracketEnd = npos
        THEN [data |-> d, currentSection |-> cur]
        ELSE LET sectionExtracted ==
                     trim(substr(line, posBracketStart + 1,
                                 posBracketEnd - posBracketStart - 1))
             IN  [data |-> Subscript(d, sectionExtracted, EmptyMap),
                  currentSection |-> sectionExtracted]

\* the branch of a line that holds '=' and no '['
KeyValueBranch(d, cur, line, posEqualSing) ==
    LET keyExtracted == trim(substr(line, 1, posEqualSing - 1))
        value == trim(substrFrom(line, posEqualSing + 1))
        section == Subscript(d, cur, EmptyMap)[cur]
    IN  [data |-> Put(d, cur, Put(section, keyExtracted, value)),
         currentSection |-> cur]

\* a slip: the '=' is looked at before the '['
ProcessLine_EqualFirst(d, cur, rawLine) ==
    LET line == removeInlineComment(rawLine)
        posBracketStart == strFind(line, "[", 1)
        posEqualSing == strFind(line, "=", 1)
    IN  IF line = <<>>
        THEN [data |-> d, currentSection |-> cur]
        ELSE IF posEqualSing # npos
        THEN KeyValueBranch(d, cur, line, posEqualSing)
        ELSE IF posBracketStart # npos
        THEN HeaderBranch(d, cur, line, posBracketStart)
        ELSE [data |-> d, currentSection |-> cur]

ProcessLine(d, cur, rawLine) ==
    LET line == removeInlineComment(rawLine)
        posBracketStart == strFind(line, "[", 1)
        posEqualSing == strFind(line, "=", 1)
    IN  IF line = <<>>
        THEN [data |-> d, currentSection |-> cur]
        ELSE IF posBracketStart # npos
        THEN HeaderBranch(d, cur, line, posBracketStart)
        ELSE IF posEqualSing # npos
        THEN KeyValueBranch(d, cur, line, posEqualSing)
        ELSE [data |-> d, currentSection |-> cur]

----------------------------------------------------------------------------
(* std::getline(file, line): reads up to the next '\n' *)

getlineEnd(f, p) ==
    LET nl == strFind(f, LF, p + 1)
    IN  IF nl = npos THEN Len(f) ELSE nl

getlineLine(f, p) ==
    LET nl == strFind(f, LF, p + 1)
    IN  IF nl = npos THEN SubSeq(f, p + 1, Len(f)) ELSE SubSeq(f, p + 1, nl - 1)

\* the constructor's loop as a whole, from stream position p on
RECURSIVE BuildFrom(_, _, _, _)
BuildFrom(f, p, d, cur) ==
    IF p >= Len(f) THEN d
    ELSE LET after == ProcessLine(d, cur, getlineLine(f, p))
         IN  BuildFrom(f, getlineEnd(f, p), after.data, after.currentSection)

\* the Document the constructor builds from a file of the given content
Document(f) == BuildFrom(f, 0, EmptyMap, <<>>)

----------------------------------------------------------------------------
(* The accessor *)

\* find(s, k, out): whether the key is stored, and its value
find(s, k) ==
    IF s \notin DOMAIN data THEN [found |-> FALSE, out |-> <<>>]
    ELSE IF k \notin DOMAIN data[s] THEN [found |-> FALSE, out |-> <<>>]
    ELSE [found |-> TRUE, out |-> data[s][k]]

RECURSIVE Pow2(_)
Pow2(n) == IF n = 0 THEN 1 ELSE 2 * Pow2(n - 1)

\* std::numeric_limits<T>::min() and max() of the integer type
IntMin(T) == IF T = "int" THEN -Pow2(IntBits - 1) ELSE 0
IntMax(T) == IF T = "int" THEN Pow2(IntBits - 1) - 1 ELSE Pow2(IntBits) - 1

\* the value of a run of decimal digits
RECURSIVE DigitsValue(_)
DigitsValue(s) ==
    IF s = <<>> THEN 0
    ELSE 10 * DigitsValue(SubSeq(s, 1, Len(s) - 1)) + DigitVal(s[Len(s)])

\* std::from_chars(first, last, value) for an integer type, base 10: a minus
\* sign is recognised for a signed type only, then the longest run of digits
from_chars(s, T) ==
    LET neg == T = "int" /\ Len(s) > 0 /\ s[1] = "-"
        first == IF neg THEN 2 ELSE 1
        stops == {i \in first..Len(s) : ~isdigit(s[i])}
        last == IF stops = {} THEN Len(s) ELSE MinOf(stops) - 1
        magnitude == DigitsValue(SubSeq(s, first, last))
        parsed == IF neg THEN -magnitude ELSE magnitude
    IN  IF last < first
        THEN [ec |-> "invalid_argument", value |-> 0]
        ELSE IF parsed < IntMin(T) \/ parsed > IntMax(T)
        THEN [ec |-> "result_out_of_range", value |-> 0]
        ELSE [ec |-> "ok", value |-> parsed]

toLower(s) == [i \in 1..Len(s) |-> tolower(s[i])]

\* the default of read's parameter toLowerString
toLowerStringDefault == FALSE

\* a slip: the text is compared without regard to case
readBool_IgnoreCase(outValue) ==
    toLower(outValue)
        \in {<<"t","r","u","e">>, <<"1">>, <<"o","n">>, <<"y","e","s">>}

readBool(outValue) ==
    outValue \in {<<"t","r","u","e">>, <<"1">>, <<"o","n">>, <<"y","e","s">>}

readChar(outValue, defaultValue) ==
    IF outValue = <<>> THEN defaultValue ELSE outValue[1]

\* a slip: outParsedValue starts as zero instead of defaultValue
readArithmetic_ZeroInit(outValue, T, defaultValue) ==
    LET result == from_chars(outValue, T)
    IN  IF result.ec = "ok" THEN result.value ELSE 0

\* outParsedValue starts as defaultValue and from_chars writes it on success only
readArithmetic(outValue, T, defaultValue) ==
    LET result == from_chars(outValue, T)
    IN  IF result.ec = "ok" THEN result.value ELSE defaultValue

\* a slip: the text is lowered whatever toLowerString says
readString_IgnoresFlag(outValue, toLowerString) ==
    LET hasUpper == \E i \in 1..Len(outValue) : isupper(outValue[i])
    IN  IF hasUpper THEN toLower(outValue) ELSE outValue

readString(outValue, toLowerString) ==
    IF toLowerString
    THEN LET hasUpper == \E i \in 1..Len(outValue) : isupper(outValue[i])
         IN  IF hasUpper THEN toLower(outValue) ELSE outValue
    ELSE outValue

\* a slip: the result of find is not looked at, and the empty outValue is
\* converted
read_NoMissCheck(T, section, key, defaultValue, toLowerString) ==
    LET f == find(section, key)
    IN  IF T = "bool" THEN readBool(f.out)
        ELSE IF T = "char" THEN readChar(f.out, defaultValue)
        ELSE IF T \in {"int", "unsigned"} THEN readArithmetic(f.out, T, defaultValue)
        ELSE IF T = "string" THEN readString(f.out, toLowerString)
        ELSE defaultValue

\* read<T>(section, key, defaultValue, toLowerString)
read(T, section, key, defaultValue, toLowerString) ==
    LET f == find(section, key)
    IN  IF ~f.found THEN defaultValue
        ELSE IF T = "bool" THEN readBool(f.out)
        ELSE IF T = "char" THEN readChar(f.out, defaultValue)
        ELSE IF T \in {"int", "unsigned"} THEN readArithmetic(f.out, T, defaultValue)
        ELSE IF T = "string" THEN readString(f.out, toLowerString)
        ELSE defaultValue

----------------------------------------------------------------------------
(* The inputs *)

BoundedSeq(S, n) == UNION {[1..m -> S] : m \in 0..n}

RECURSIVE Concat(_)
Concat(ss) == IF ss = <<>> THEN <<>> ELSE Head(ss) \o Concat(Tail(ss))

Terminator(e) ==
    IF e = "LF" THEN <<LF>> ELSE IF e = "CRLF" THEN <<CR, LF>> ELSE <<CR>>

\* the text of a file of the lines ls, each ended the way e says
Encode(ls, e) == Concat([i \in 1..Len(ls) |-> ls[i] \o Terminator(e)])

\* the same text with the last line left unterminated
EncodeOpen(ls, e) ==
    Concat([i \in 1..Len(ls) |->
              IF i = Len(ls) THEN ls[i] ELSE ls[i] \o Terminator(e)])

\* lines of a configuration file that exercise the builder
BuildLines ==
    { <<"k","=","1">>,
      <<"k"," ","=", " ","5"," ","/","/"," ","f","i","v","e">>,
      <<"["," ","s",TAB,"]">>,
      <<"[","t","]"," ","k","=","v">>,
      <<"[","u"," ",";","]">>,
      <<"k"," ","=", " ","a","[","0","]">>,
      <<"[","]">>,
      <<"j","=","a","=","b",";","[">>,
      <<"/","/","k","=","9",";","#">>,
      <<"]","k","=","3","[">> }

\* lines for the line-ending conventions, the empty line among them
EolLines ==
    { <<>>,
      <<"k","=","1">>,
      <<"j","=","2"," ",";","c">>,
      <<"[","s","]">>,
      <<"[","u">>,
      <<"x">>,
      <<"k","=">> }

ValueAlphabet == {"-", "0", "1", "2", "9", "x"}

\* raw values: every text over ValueAlphabet up to MaxValLen, and the
\* texts of the documentation's examples
ValueTexts ==
    BoundedSeq(ValueAlphabet, MaxValLen)
    \cup { <<"t","r","u","e">>, <<"o","n">>, <<"y","e","s">>,
           <<"T","r","u","e">>, <<"o","f","f">>, <<"O","N">>,
           <<"4","2","x","y","z">>, <<"b","a","n","a","n","a">>,
           <<"H","E","L","L","O">>, <<"h","e","l","l","o">>,
           <<"M","i","x","e","d"," ","1">> }

ReadLines ==
    { <<"k","=">> \o v : v \in ValueTexts }
    \cup { <<"k","=","o","f","f"," ",";"," ","n","o","t","e">>,
           <<"k"," ","=", " ","5"," ","/","/"," ","f","i","v","e">> }

\* the arguments of read
QuerySections == { <<>>, <<"s">> }
QueryKeys == { <<"k">>, <<"j">> }
Defaults(T) ==
    IF T = "bool" THEN BOOLEAN
    ELSE IF T = "char" THEN {"d"}
    ELSE IF T = "int" THEN {-1, 7}
    ELSE IF T = "unsigned" THEN {0, 7}
    ELSE IF T = "string" THEN {<<"D","f","l","t">>}
    ELSE {"defaultObject"}

\* the fourth argument of read: left out, or given as true or false
FoldArgs == {"omitted", "true", "false"}

NoRet ==
    [T |-> "none", section |-> <<>>, key |-> <<>>,
     defaultValue |-> <<"none", 0>>, foldArg |-> "omitted",
     toLowerString |-> FALSE, value |-> <<"none", 0>>]

----------------------------------------------------------------------------
(* The state machine *)

\* the file is one of Files written with one of Eols, its last line
\* terminated or (when openEnded) possibly not, or the file cannot be opened
InitFrom(Files, Eols, openEnded) ==
    /\ pos = 0
    /\ pc = "start"
    /\ data = EmptyMap
    /\ currentSection = <<>>
    /\ lines = <<>>
    /\ ret = NoRet
    /\ \/ /\ exists = FALSE
          /\ file = <<>>
          /\ srcLines = <<>>
          /\ eol = "LF"
       \/ /\ exists = TRUE
          /\ srcLines \in Files
          /\ eol \in Eols
          /\ \/ file = Encode(srcLines, eol)
             \/ openEnded /\ file = EncodeOpen(srcLines, eol)

\* files that store one raw value under key k, in the implicit section or in s
ReadFiles ==
    {<<>>} \cup {<<l>> : l \in ReadLines}
           \cup {<<(<<"[","s","]">>), l>> : l \in ReadLines}

Init == InitFrom(ReadFiles, {"LF"}, FALSE)

\* the constructor up to the loop: the file is opened
Open ==
    /\ pc = "start"
    /\ exists
    /\ pc' = "loop"
    /\ UNCHANGED <<exists, file, pos, data, currentSection, lines, ret,
                   srcLines, eol>>

\* the constructor when the file cannot be opened: it returns at once
OpenFail ==
    /\ pc = "start"
    /\ ~exists
    /\ pc' = "ready"
    /\ UNCHANGED <<exists, file, pos, data, currentSection, lines, ret,
                   srcLines, eol>>

\* one iteration of while (std::getline(file, line))
GetLine ==
    /\ pc = "loop"
    /\ pos < Len(file)
    /\ LET line == getlineLine(file, pos)
           after == ProcessLine(data, currentSection, line)
       IN  /\ data' = after.data
           /\ currentSection' = after.currentSection
           /\ lines' = Append(lines, line)
    /\ pos' = getlineEnd(file, pos)
    /\ UNCHANGED <<exists, file, pc, ret, srcLines, eol>>

\* std::getline fails at the end of the file: the loop and the constructor end
EndOfFile ==
    /\ pc = "loop"
    /\ pos = Len(file)
    /\ pc' = "ready"
    /\ UNCHANGED <<exists, file, pos, data, currentSection, lines, ret,
                   srcLines, eol>>

\* a call of read<T>; a call that leaves the fourth argument out passes the
\* parameter's default
Read(T, foldArgs) ==
    /\ pc = "ready"
    /\ \E section \in QuerySections, key \in QueryKeys,
          defaultValue \in Defaults(T), foldArg \in foldArgs :
          LET toLowerString == IF foldArg = "omitted"
                               THEN toLowerStringDefault
                               ELSE foldArg = "true"
          IN  ret' = [T |-> T, section |-> section, key |-> key,
                      defaultValue |-> <<T, defaultValue>>,
                      foldArg |-> foldArg,
                      toLowerString |-> toLowerString,
                      value |-> <<T, read(T, section, key, defaultValue,
                                          toLowerString)>>]
    /\ UNCHANGED <<exists, file, pos, pc, data, currentSection, lines,
                   srcLines, eol>>

ReadBool == Read("bool", {"omitted"})
ReadChar == Read("char", {"omitted"})
ReadInt == Read("int", {"omitted"})
ReadUnsigned == Read("unsigned", {"omitted"})
ReadString == Read("string", FoldArgs)
ReadOther == Read("other", {"omitted"})

Next ==
    \/ Open
    \/ OpenFail
    \/ GetLine
    \/ EndOfFile
    \/ ReadBool
    \/ ReadChar
    \/ ReadInt
    \/ ReadUnsigned
    \/ ReadString
    \/ ReadOther

Spec == Init /\ [][Next]_vars

\* the builder on files of up to MaxLines lines, and the text accessor
InitBuild == InitFrom(BoundedSeq(BuildLines, MaxLines), {"LF"}, FALSE)

NextBuild ==
    \/ Open
    \/ OpenFail
    \/ GetLine
    \/ EndOfFile
    \/ ReadString

SpecBuild == InitBuild /\ [][NextBuild]_vars

\* the builder on files of one line: a line of BuildLines, or key k set to a
\* text over the comment markers
StripLines ==
    { <<"k","=">> \o t : t \in BoundedSeq({";", "#", "/", "a"}, MaxCommentLen) }

InitStrip == InitFrom({<<l>> : l \in StripLines \cup BuildLines}, {"LF"}, FALSE)

SpecStrip == InitStrip /\ [][NextBuild]_vars

\* the builder on files written with each line-ending convention
InitEol ==
    InitFrom(BoundedSeq(EolLines, MaxLines), {"LF", "CRLF", "CR"}, TRUE)

SpecEol == InitEol /\ [][NextBuild]_vars

----------------------------------------------------------------------------
(* The default and the result of a call of read, without the type *)

DefaultOf(r) == r.defaultValue[2]

Returned(r) == r.value[2]

-----------------------------------------------------------------------------
(* What the format says of a line, stated on the comment-stripped text *)

Chars(s) == {s[i] : i \in 1..Len(s)}

Stripped(l) == removeInlineComment(l)

\* a header line: its first '[' has a ']' at or after it
IsHeaderLine(l) ==
    LET s == Stripped(l)
    IN  \E o \in 1..Len(s) :
            /\ s[o] = "["
            /\ \A i \in 1..(o - 1) : s[i] # "["
            /\ \E c \in o..Len(s) : s[c] = "]"

\* a malformed header: a '[' and no ']' at or after the first one
IsMalformedHeader(l) == "[" \in Chars(Stripped(l)) /\ ~IsHeaderLine(l)

\* the text strictly between the first '[' and the next ']', trimmed
HeaderName(l) ==
    LET s == Stripped(l)
        o == MinOf({i \in 1..Len(s) : s[i] = "["})
        c == MinOf({i \in o..Len(s) : s[i] = "]"})
    IN  trim(SubSeq(s, o + 1, c - 1))

IsKeyValueLine(l) ==
    "=" \in Chars(Stripped(l)) /\ "[" \notin Chars(Stripped(l))

FirstEqual(l) == MinOf({i \in 1..Len(Stripped(l)) : Stripped(l)[i] = "="})

KeyOf(l) == trim(SubSeq(Stripped(l), 1, FirstEqual(l) - 1))

ValueOf(l) == trim(SubSeq(Stripped(l), FirstEqual(l) + 1, Len(Stripped(l))))

\* the section line i of ls belongs to: the name of the most recent header
\* line before it, the empty text when there is none
SectionAt(ls, i) ==
    LET H == {j \in 1..(i - 1) : IsHeaderLine(ls[j])}
    IN  IF H = {} THEN <<>> ELSE HeaderName(ls[MaxOf(H)])

\* the key-value lines of ls that belong to section s and set key k
Writes(ls, s, k) ==
    {i \in 1..Len(ls) :
        IsKeyValueLine(ls[i]) /\ SectionAt(ls, i) = s /\ KeyOf(ls[i]) = k}

Holds(s, k) == s \in DOMAIN data /\ k \in DOMAIN data[s]

----------------------------------------------------------------------------
(* C1: every key-value line is stored under the trimmed name of the most   *)
(* recent preceding header line that has a closing bracket, under the      *)
(* empty section name when no header precedes it; the current section is   *)
(* that name at every point of the loop; and read("", k, d) returns the    *)
(* value of a key set before any header.                                   *)
C1_SectionRouting ==
    /\ currentSection = SectionAt(lines, Len(lines) + 1)
    /\ \A i \in 1..Len(lines) :
          IsKeyValueLine(lines[i])
              => Holds(SectionAt(lines, i), KeyOf(lines[i]))
    /\ (/\ ret.T = "string"
        /\ ret.section = <<>>
        /\ ~ret.toLowerString
        /\ Writes(lines, <<>>, ret.key) # {})
          => Returned(ret) =
                ValueOf(lines[MaxOf(Writes(lines, <<>>, ret.key))])

\* a key set before any header was read back from section "", and a key set
\* after a header with blanks inside the brackets is stored under s
C1_Witness ==
    /\ ret.T = "string"
    /\ ret.section = <<>>
    /\ ret.key = <<"k">>
    /\ Returned(ret) = <<"1">>
    /\ Len(lines) = 3
    /\ lines[1] = <<"k","=","1">>
    /\ lines[2] = <<"["," ","s",TAB,"]">>
    /\ lines[3] = <<"k"," ","=", " ","5"," ","/","/"," ","f","i","v","e">>
    /\ data[<<"s">>][<<"k">>] = <<"5">>

----------------------------------------------------------------------------
(* C2: the Document holds key k in section s exactly when some key-value   *)
(* line with key k was processed while s was current, and the stored value *)
(* is that of the last such line; reopening a section by a second header   *)
(* (the empty name included) keeps its pairs.                              *)
C2_LastWriteWinsAndMerge ==
    LET secs == DOMAIN data \cup {SectionAt(lines, i) : i \in 1..Len(lines)}
        keys == UNION {DOMAIN data[s] : s \in DOMAIN data}
                \cup {KeyOf(lines[i]) :
                        i \in {j \in 1..Len(lines) : IsKeyValueLine(lines[j])}}
    IN  \A s \in secs, k \in keys :
            /\ Holds(s, k) <=> Writes(lines, s, k) # {}
            /\ Holds(s, k)
                 => data[s][k] = ValueOf(lines[MaxOf(Writes(lines, s, k))])

\* k=1, then the header [] reopening the implicit section, then k set
\* again: the section was reopened and the last value stands
C2_Witness ==
    /\ pc = "ready"
    /\ lines = << <<"k","=","1">>, <<"[","]">>,
                  <<"k"," ","=", " ","5"," ","/","/"," ","f","i","v","e">> >>
    /\ DOMAIN data = {<<>>}
    /\ data[<<>>][<<"k">>] = <<"5">>

----------------------------------------------------------------------------
(* C3: a comment-stripped line whose first '[' has no ']' at or after it   *)
(* changes nothing: the step that reads it leaves the Document and the     *)
(* current section as they were, so a later key-value line is stored under *)
(* the section current before the malformed line, and a later header is    *)
(* honoured.                                                               *)
C3_MalformedHeader ==
    /\ [][(lines' # lines /\ IsMalformedHeader(lines'[Len(lines')]))
            => (data' = data /\ currentSection' = currentSection)]_vars
    /\ [](\A i \in 1..Len(lines) : \A j \in (i + 1)..Len(lines) :
            IsMalformedHeader(lines[i]) =>
              /\ (/\ IsKeyValueLine(lines[j])
                  /\ \A m \in (i + 1)..(j - 1) : ~IsHeaderLine(lines[m]))
                    => Holds(SectionAt(lines, i), KeyOf(lines[j]))
              /\ IsHeaderLine(lines[j])
                    => /\ HeaderName(lines[j]) \in DOMAIN data
                       /\ j = Len(lines)
                            => currentSection = HeaderName(lines[j]))

\* a header of s, then [u with its ']' inside a comment, then k=1: k is
\* stored under s and no section u exists
C3_Witness ==
    /\ lines = << <<"["," ","s",TAB,"]">>, <<"[","u"," ",";","]">>,
                  <<"k","=","1">> >>
    /\ DOMAIN data = {<<"s">>}
    /\ data[<<"s">>][<<"k">>] = <<"1">>

----------------------------------------------------------------------------
(* C4: removeInlineComment cuts a line at the smallest position at which   *)
(* ';', '#' or "//" occurs and leaves a line without them unchanged; the   *)
(* line is stripped before it is classified, so no stored section name,    *)
(* key or value holds a marker and `k = 5 // five` stores exactly "5".     *)
Markers(l) ==
    {i \in 1..Len(l) :
        \/ l[i] \in {";", "#"}
        \/ (l[i] = "/" /\ i < Len(l) /\ l[i + 1] = "/")}

NoMarker(t) == Markers(t) = {}

C4_CommentStripping ==
    /\ \A i \in 1..Len(lines) :
          removeInlineComment(lines[i]) =
              IF Markers(lines[i]) = {} THEN lines[i]
              ELSE SubSeq(lines[i], 1, MinOf(Markers(lines[i])) - 1)
    /\ \A s \in DOMAIN data :
          /\ NoMarker(s)
          /\ \A k \in DOMAIN data[s] : NoMarker(k) /\ NoMarker(data[s][k])
    /\ \A i \in 1..Len(lines) :
          IsKeyValueLine(lines[i]) /\ Markers(lines[i]) # {}
              => ValueOf(lines[i]) =
                   trim(SubSeq(lines[i], FirstEqual(lines[i]) + 1,
                               MinOf(Markers(lines[i])) - 1))
    /\ (Len(lines) = 1 /\
        lines[1] = <<"k"," ","=", " ","5"," ","/","/"," ","f","i","v","e">>)
          => data = (<<>> :> (<<"k">> :> <<"5">>))

\* `k = 5 // five` was read and 5 is stored
C4_Witness ==
    /\ lines = << <<"k"," ","=", " ","5"," ","/","/"," ","f","i","v","e">> >>
    /\ data[<<>>][<<"k">>] = <<"5">>

----------------------------------------------------------------------------
(* C10: a comment-stripped line that holds '[' anywhere never stores a     *)
(* key-value pair: it opens the section named between its first '[' and    *)
(* the next ']', or it is discarded; a pair is stored only by a line with  *)
(* no '[', split at its first '='.                                         *)
C10_HeaderPrecedence ==
    [][lines' # lines =>
        LET l == lines'[Len(lines')]
        IN  /\ "[" \in Chars(Stripped(l)) =>
                 /\ \A s \in DOMAIN data :
                       s \in DOMAIN data' /\ data'[s] = data[s]
                 /\ \A s \in DOMAIN data' \ DOMAIN data : DOMAIN data'[s] = {}
                 /\ IF IsHeaderLine(l)
                    THEN /\ currentSection' = HeaderName(l)
                         /\ DOMAIN data' = DOMAIN data \cup {HeaderName(l)}
                    ELSE data' = data /\ currentSection' = currentSection
            /\ \A s \in DOMAIN data' : \A k \in DOMAIN data'[s] :
                 (~Holds(s, k) \/ data'[s][k] # data[s][k]) =>
                     /\ "[" \notin Chars(Stripped(l))
                     /\ "=" \in Chars(Stripped(l))
                     /\ s = currentSection
                     /\ k = KeyOf(l)
                     /\ data'[s][k] = ValueOf(l)
       ]_vars

\* `k = a[0]` opened section 0 and stored nothing; `[t] k=v` opened t
C10_Witness ==
    /\ lines = << <<"k"," ","=", " ","a","[","0","]">>,
                  <<"[","t","]"," ","k","=","v">> >>
    /\ DOMAIN data = {<<"0">>, <<"t">>}
    /\ DOMAIN data[<<"0">>] = {}
    /\ DOMAIN data[<<"t">>] = {}
    /\ currentSection = <<"t">>

----------------------------------------------------------------------------
(* C9 as stated: the Document is the same whichever convention ends the    *)
(* lines of the file: LF, CRLF, or CR alone (the last line terminated or   *)
(* not).                                                                   *)
C9_AnyLineEnding ==
    (pc = "ready" /\ exists)
        => \A e \in {"LF", "CRLF", "CR"} :
               /\ data = Document(Encode(srcLines, e))
               /\ data = Document(EncodeOpen(srcLines, e))

(* C9 as amended: the Document is the same whether the lines end in LF or  *)
(* in CRLF (the last line terminated or not).                              *)
C9_LfOrCrlf ==
    (pc = "ready" /\ exists /\ eol \in {"LF", "CRLF"})
        => \A e \in {"LF", "CRLF"} :
               /\ data = Document(Encode(srcLines, e))
               /\ data = Document(EncodeOpen(srcLines, e))

\* a file of three CRLF lines was read: getline returned the lines with
\* their '\r', and the stored value has none
C9_Witness ==
    /\ pc = "ready"
    /\ eol = "CRLF"
    /\ lines = << <<"[","s","]",CR>>, <<CR>>, <<"k","=","1",CR>> >>
    /\ data = (<<"s">> :> (<<"k">> :> <<"1">>))

----------------------------------------------------------------------------
(* The stored raw text a call of read found *)

Found(r) == r.T # "none" /\ Holds(r.section, r.key)

Raw(r) == data[r.section][r.key]

----------------------------------------------------------------------------
(* C5: whatever the Document, the requested type and defaultValue, read    *)
(* returns defaultValue when the section is absent or the key is absent    *)
(* within the section.                                                     *)
C5_LookupMiss ==
    (ret.T # "none" /\ ~Holds(ret.section, ret.key))
        => Returned(ret) = DefaultOf(ret)

\* a boolean read of a key absent from a section that exists returned the
\* default true
C5_Witness ==
    /\ ret.T = "bool"
    /\ ret.section \in DOMAIN data
    /\ ret.key \notin DOMAIN data[ret.section]
    /\ DefaultOf(ret) = TRUE
    /\ Returned(ret) = TRUE

----------------------------------------------------------------------------
(* C6: on a hit, read as boolean returns true exactly when the raw text is *)
(* one of "true", "1", "on", "yes", compared case-sensitively, and false   *)
(* for every other text; the result never depends on defaultValue.         *)
C6_BooleanRead ==
    (ret.T = "bool" /\ Found(ret))
        => Returned(ret) =
             (Raw(ret) \in {<<"t","r","u","e">>, <<"1">>, <<"o","n">>,
                            <<"y","e","s">>})

\* `k=off ; note` read as boolean with default true gave false
C6_Witness ==
    /\ ret.T = "bool"
    /\ Found(ret)
    /\ lines = << <<"k","=","o","f","f"," ",";"," ","n","o","t","e">> >>
    /\ Raw(ret) = <<"o","f","f">>
    /\ DefaultOf(ret) = TRUE
    /\ Returned(ret) = FALSE

----------------------------------------------------------------------------
(* The integer token at the start of a text: an optional '-' (when         *)
(* minusAllowed) and then one or more digits                               *)

IsToken(t, minusAllowed) ==
    LET digits == IF minusAllowed /\ Len(t) > 0 /\ t[1] = "-"
                  THEN Tail(t) ELSE t
    IN  Len(digits) >= 1 /\ \A i \in 1..Len(digits) : isdigit(digits[i])

Tokens(raw, minusAllowed) ==
    {n \in 1..Len(raw) : IsToken(SubSeq(raw, 1, n), minusAllowed)}

Token(raw, minusAllowed) == SubSeq(raw, 1, MaxOf(Tokens(raw, minusAllowed)))

TokenValue(t) ==
    IF t[1] = "-" THEN -DigitsValue(Tail(t)) ELSE DigitsValue(t)

\* what a prefix-based read with exact fallback returns
PrefixRead(r, minusAllowed) ==
    IF /\ Tokens(Raw(r), minusAllowed) # {}
       /\ TokenValue(Token(Raw(r), minusAllowed)) >= IntMin(r.T)
       /\ TokenValue(Token(Raw(r), minusAllowed)) <= IntMax(r.T)
    THEN TokenValue(Token(Raw(r), minusAllowed))
    ELSE DefaultOf(r)

(* C7 as stated: on a hit, when the raw text begins with an integer token  *)
(* (optional '-', then digits) whose value the requested integer type can  *)
(* represent, read returns that value and ignores what follows; in every   *)
(* other case it returns exactly defaultValue.                             *)
C7_IntegerPrefixRead ==
    (ret.T \in {"int", "unsigned"} /\ Found(ret))
        => Returned(ret) = PrefixRead(ret, TRUE)

(* C7 as amended: the same, with the '-' part of the token for a signed    *)
(* type only; for an unsigned type a text that begins with '-' has no      *)
(* token, and read returns defaultValue.                                   *)
C7_IntegerPrefixReadSigned ==
    (ret.T \in {"int", "unsigned"} /\ Found(ret))
        => Returned(ret) = PrefixRead(ret, ret.T = "int")

\* `k=42xyz` read as a signed integer with default -1 gave 42
C7_Witness ==
    /\ ret.T = "int"
    /\ Found(ret)
    /\ Raw(ret) = <<"4","2","x","y","z">>
    /\ DefaultOf(ret) = -1
    /\ Returned(ret) = 42

----------------------------------------------------------------------------
(* C8: on a hit, read as text returns the raw value unchanged when the     *)
(* fold-case argument is false or left out, and the raw value with every   *)
(* uppercase character lowered when it is true, for every raw text;        *)
(* folding a folded result changes nothing, and no read changes what is    *)
(* stored.                                                                 *)
C8_TextRead ==
    /\ []((ret.T = "string" /\ Found(ret)) =>
            /\ ret.foldArg \in {"omitted", "false"}
                    => Returned(ret) = Raw(ret)
            /\ ret.foldArg = "true" =>
                 /\ Returned(ret) = toLower(Raw(ret))
                 /\ toLower(Returned(ret)) = Returned(ret)
                 /\ \A i \in 1..Len(Returned(ret)) :
                        ~isupper(Returned(ret)[i]))
    /\ [][pc = "ready" => data' = data]_vars

\* HELLO read with fold-case gave hello
C8_Witness ==
    /\ ret.T = "string"
    /\ Found(ret)
    /\ Raw(ret) = <<"H","E","L","L","O">>
    /\ ret.foldArg = "true"
    /\ Returned(ret) = <<"h","e","l","l","o">>

====
